---- MODULE Spec2Model ----
(***************************************************************************)
(* The notebooks of the repository, each run in a kernel of its own.       *)
(*                                                                         *)
(* The fairness notebook: the UncorrelationMethod class (__init__, fit,    *)
(* new_representation) and the DEO measure (deo_from_list,                 *)
(* deo_from_model), run on a small data matrix.                            *)
(* The batch-transform notebook: the three-way split of the data, the      *)
(* files it uploads, the training job and the three transform jobs.        *)
(* The tuning notebook: the two hyperparameter-tuning jobs and the cell    *)
(* that analyses them.                                                     *)
(*                                                                         *)
(* Numbers are binary floating-point values with a significand of         *)
(* Precision bits, rounded to nearest, ties to even, after every           *)
(* operation, as IEEE doubles are with 53 bits.  A value is written as the *)
(* rational <<n, d>> in lowest terms with d > 0; NaN is <<0, 0>>.          *)
(* Python indexes columns from 0, the model from 1.                        *)
(***************************************************************************)
EXTENDS Integers, Sequences, FiniteSets

\* Most rows a data matrix holds.
MaxRows == 3
\* Feature columns of a data matrix (the label column comes after them).
NumFeatures == 3
\* Bits of a float's significand.
Precision == 8
\* Rows of the batch-transform notebook's data.
MaxRecords == 4
\* Predictor columns of the batch-transform notebook's data (30 in wdbc.data).
NumPredictors == 2
\* Most characters of the name the SDK gives the first tuning job.
MaxNameLen == 3

VARIABLES
    sensitive_feature_gender,  \* the notebook's index of the sensitive column
    data_matrix,        \* the notebook's data matrix: rows of features + label
    constructed,        \* an UncorrelationMethod object exists
    val0,               \* self.val0
    sensitive_feature,  \* self.sensitive_feature (1-based)
    u,                  \* self.u; None before the first completed fit
    fitted,             \* history: the dataset of the last fit that completed
    call,               \* the last call: [op, arg]
    ret,                \* what the last call returned: [kind, val]
    exc,                \* the exception the last call raised, or "none"
    printed,            \* what the last call on the object printed
    \* The batch-transform notebook
    data,               \* the data frame: [columns, rows]
    rand_split,         \* np.random.rand(len(data)); None before the split
    train_list,         \* the three boolean masks
    val_list,
    batch_list,
    data_train,         \* the four data frames of the split; None before it
    data_val,
    data_batch,
    data_batch_noID,
    s3,                 \* the bucket: object key |-> lines of the object
    bpc,                \* the step the notebook is at
    jobs,               \* the training and transform jobs started, in order
    xgb_model,          \* the model the training job produced; None before
    output_path,        \* sm_transformer.output_path
    output,             \* the lines last read by get_csv_output_from_s3
    waited,             \* history: the jobs whose wait has returned
    read_of,            \* history: the job whose output was last read, or 0
    bexc,               \* the exception that stopped the notebook, or "none"
    \* The tuning notebook
    tpc,                \* the cell the notebook is at
    tuning_jobs,        \* the service's tuning jobs: name |-> status
    name_log,           \* tuner_log.latest_tuning_job.job_name
    name_linear,        \* tuner_linear.latest_tuning_job.job_name
    status_log,         \* the analysis cell's two variables
    status_linear,
    df_log,             \* the analysis cell's three data frames
    df_linear,
    df,
    texc                \* the exception that stopped the notebook, or "none"

fairVars == <<sensitive_feature_gender, data_matrix, constructed, val0,
              sensitive_feature, u, fitted, call, ret, exc, printed>>
splitVars == <<rand_split, train_list, val_list, batch_list,
               data_train, data_val, data_batch, data_batch_noID>>
batchVars == <<data, splitVars, s3, bpc, jobs, xgb_model, output_path, output,
               waited, read_of, bexc>>
tuneVars == <<tpc, tuning_jobs, name_log, name_linear, status_log, status_linear,
              df_log, df_linear, df, texc>>
vars == <<fairVars, batchVars, tuneVars>>

----------------------------------------------------------------------------
(* Float arithmetic                                                        *)

Abs(n) == IF n < 0 THEN -n ELSE n

RECURSIVE GCD(_, _)
GCD(a, b) == IF b = 0 THEN a ELSE GCD(b, a % b)

\* n / d in lowest terms, d # 0.
Rat(n, d) ==
    LET g == GCD(Abs(n), Abs(d))
        s == IF d < 0 THEN -1 ELSE 1
    IN  <<(s * n) \div g, (s * d) \div g>>

NaN == <<0, 0>>
Zero == <<0, 1>>
One == <<1, 1>>
MinusOne == <<-1, 1>>

IsNaN(a) == a[2] = 0

RAdd(a, b) ==
    IF IsNaN(a) \/ IsNaN(b) THEN NaN ELSE Rat(a[1] * b[2] + b[1] * a[2], a[2] * b[2])
RSub(a, b) ==
    IF IsNaN(a) \/ IsNaN(b) THEN NaN ELSE Rat(a[1] * b[2] - b[1] * a[2], a[2] * b[2])
RMul(a, b) ==
    IF IsNaN(a) \/ IsNaN(b) THEN NaN ELSE Rat(a[1] * b[1], a[2] * b[2])
\* a / b; the code divides by zero only as 0.0 / 0, which is NaN.
RDiv(a, b) ==
    IF IsNaN(a) \/ IsNaN(b) \/ b[1] = 0 THEN NaN ELSE Rat(a[1] * b[2], a[2] * b[1])
RAbs(a) == <<Abs(a[1]), a[2]>>
RLess(a, b) == a[1] * b[2] < b[1] * a[2]

RECURSIVE Pow2(_)
Pow2(k) == IF k = 0 THEN 1 ELSE 2 * Pow2(k - 1)

\* The least significand of a normal float, 2^(Precision-1).
MinSignificand == Pow2(Precision - 1)

\* n / d (both positive) scaled by a power of two into [2^(Precision-1),
\* 2^Precision): <<n', d', s>> with n' / d' = (n / d) * 2^s.  The exponent
\* is not bounded: the values of the model stay far from under- and overflow.
RECURSIVE Scaled(_, _, _)
Scaled(n, d, s) ==
    IF n < d * MinSignificand THEN Scaled(2 * n, d, s + 1)
    ELSE IF n >= 2 * d * MinSignificand THEN Scaled(n, 2 * d, s - 1)
    ELSE <<n, d, s>>

\* The float nearest to the rational a, ties to the even significand.
Fl(a) ==
    IF IsNaN(a) \/ a[1] = 0 THEN a
    ELSE LET t == Scaled(Abs(a[1]), a[2], 0)
             q == t[1] \div t[2]
             r == t[1] - q * t[2]
             m == IF 2 * r > t[2] \/ (2 * r = t[2] /\ q % 2 = 1) THEN q + 1 ELSE q
             sign == IF a[1] < 0 THEN -1 ELSE 1
         IN  IF t[3] >= 0 THEN Rat(sign * m, Pow2(t[3]))
             ELSE Rat(sign * m * Pow2(-t[3]), 1)

FAdd(a, b) == Fl(RAdd(a, b))
FSub(a, b) == Fl(RSub(a, b))
FMul(a, b) == Fl(RMul(a, b))
FDiv(a, b) == Fl(RDiv(a, b))

----------------------------------------------------------------------------
(* Data                                                                    *)

NumCols == NumFeatures + 1
\* MinMaxScaler(feature_range=(0.0, 1.0)) leaves every feature in [0, 1]: a
\* two-valued column (the sensitive one) holds 0.0 and 1.0, the others hold
\* fractions, here the floats nearest 0.1 and 0.7.  Labels are 0.0 and 1.0.
Vals == {Zero, One}
FeatureVals == {Fl(Rat(1, 10)), Fl(Rat(7, 10))}
\* The rows of a data matrix whose sensitive column is column s.
Rows(s) ==
    {row \in [1..NumCols -> Vals \cup FeatureVals] :
        \A j \in 1..NumCols :
            row[j] \in (IF j = s \/ j = NumCols THEN Vals ELSE FeatureVals)}

None == <<>>
NoReturn == [kind |-> "none", val |-> <<>>]
Array(m) == [kind |-> "array", val |-> m]
Scalar(x) == [kind |-> "scalar", val |-> x]

\* dataset[:, :-1]
Features(m) == [r \in 1..Len(m) |-> SubSeq(m[r], 1, Len(m[r]) - 1)]
\* row[-1]
Label(row) == row[Len(row)]

\* The sum of column j over the first n rows, added up row after row.
RECURSIVE SumCol(_, _, _)
SumCol(rows, j, n) ==
    IF n = 1 THEN rows[1][j] ELSE FAdd(SumCol(rows, j, n - 1), rows[n][j])

\* np.mean(rows, 0) of a non-empty list of rows: the column means.
Mean0(rows) ==
    [j \in 1..Len(rows[1]) |->
        FDiv(SumCol(rows, j, Len(rows)), Rat(Len(rows), 1))]

----------------------------------------------------------------------------
(* class UncorrelationMethod                                               *)

\* The label-1 rows of group A, and those of the other group.
PosA(dataset, sf, v0) ==
    SelectSeq(dataset, LAMBDA ex : Label(ex) = One /\ ex[sf] = v0)
PosNotA(dataset, sf, v0) ==
    SelectSeq(dataset, LAMBDA ex : Label(ex) = One /\ ex[sf] # v0)

\* np.mean of an empty list is the scalar nan, and slicing it ([:-1]) raises.
FitRaises(dataset, sf, v0) ==
    PosA(dataset, sf, v0) = <<>> \/ PosNotA(dataset, sf, v0) = <<>>

\* Variants of FitU: the difference taken the other way round, the sensitive
\* entry left as computed, and the sensitive entry forced to +1.
FitU_reversed(dataset, sf, v0) ==
    LET average_A_1 == Mean0(PosA(dataset, sf, v0))
        average_not_A_1 == Mean0(PosNotA(dataset, sf, v0))
    IN  [j \in 1..(Len(average_A_1) - 1) |->
            IF j = sf THEN MinusOne ELSE FSub(average_not_A_1[j], average_A_1[j])]
FitU_unforced(dataset, sf, v0) ==
    LET average_A_1 == Mean0(PosA(dataset, sf, v0))
        average_not_A_1 == Mean0(PosNotA(dataset, sf, v0))
    IN  [j \in 1..(Len(average_A_1) - 1) |-> FSub(average_A_1[j], average_not_A_1[j])]
FitU_plus_one(dataset, sf, v0) ==
    LET average_A_1 == Mean0(PosA(dataset, sf, v0))
        average_not_A_1 == Mean0(PosNotA(dataset, sf, v0))
    IN  [j \in 1..(Len(average_A_1) - 1) |->
            IF j = sf THEN One ELSE FSub(average_A_1[j], average_not_A_1[j])]

\* self.u after a fit that completes.
FitU(dataset, sf, v0) ==
    LET average_A_1 == Mean0(PosA(dataset, sf, v0))
        average_not_A_1 == Mean0(PosNotA(dataset, sf, v0))
    IN  [j \in 1..(Len(average_A_1) - 1) |->
            IF j = sf THEN MinusOne ELSE FSub(average_A_1[j], average_not_A_1[j])]

\* Variants of Shifted: every row shifted, and the shift subtracted.
Shifted_every_row(ex, sf, v0, uu) == [j \in 1..Len(ex) |-> FAdd(ex[j], uu[j])]
Shifted_minus(ex, sf, v0, uu) ==
    IF ex[sf] = v0 THEN ex ELSE [j \in 1..Len(ex) |-> FSub(ex[j], uu[j])]

\* ex if ex[sensitive_feature] == val0 else ex + u
Shifted(ex, sf, v0, uu) ==
    IF ex[sf] = v0 THEN ex ELSE [j \in 1..Len(ex) |-> FAdd(ex[j], uu[j])]

\* np.delete(row, sf): the row without column sf.
DeleteCol(row, sf) ==
    [j \in 1..(Len(row) - 1) |-> IF j < sf THEN row[j] ELSE row[j + 1]]

\* Variant of NewRepresentationRaises: the delete runs before the check of u.
NewRepresentationRaises_unchecked(examples, uu) == examples = <<>>

\* np.array([]) is one-dimensional, and np.delete(.., axis 1) raises on it.
NewRepresentationRaises(examples, uu) == uu # None /\ examples = <<>>

FitFirst == "You have to fit the model first..."

\* What new_representation returns when it returns.
NewRepresentationValue(examples, sf, v0, uu) ==
    IF uu = None
    THEN examples
    ELSE [r \in 1..Len(examples) |-> DeleteCol(Shifted(examples[r], sf, v0, uu), sf)]

\* A notebook that is not run stays as its kernel starts: nothing loaded, no
\* job started.
NoFrame == [columns |-> <<>>, rows |-> <<>>]
NoObjects == [key \in {} |-> <<>>]
BatchIdle ==
    /\ data = NoFrame
    /\ rand_split = None
    /\ train_list = None
    /\ val_list = None
    /\ batch_list = None
    /\ data_train = None
    /\ data_val = None
    /\ data_batch = None
    /\ data_batch_noID = None
    /\ s3 = NoObjects
    /\ bpc = "idle"
    /\ jobs = <<>>
    /\ xgb_model = None
    /\ output_path = None
    /\ output = None
    /\ waited = {}
    /\ read_of = 0
    /\ bexc = "none"
TuningIdle ==
    /\ tpc = "idle"
    /\ tuning_jobs = NoObjects
    /\ name_log = None
    /\ name_linear = None
    /\ status_log = "unread"
    /\ status_linear = "unread"
    /\ df_log = None
    /\ df_linear = None
    /\ df = None
    /\ texc = "none"

Init ==
    /\ BatchIdle
    /\ TuningIdle
    /\ sensitive_feature_gender \in 1..NumFeatures
    /\ \E k \in 0..MaxRows : data_matrix \in [1..k -> Rows(sensitive_feature_gender)]
    /\ constructed = FALSE
    /\ val0 = Zero
    /\ sensitive_feature = 0
    /\ u = None
    /\ fitted = None
    /\ call = [op |-> "load", arg |-> <<>>]
    /\ ret = NoReturn
    /\ exc = "none"
    /\ printed = <<>>

\* uncorr_data = UncorrelationMethod(sensitive_feature_gender, groupA_value)
Construct(groupA_value) ==
    /\ ~constructed
    /\ constructed' = TRUE
    /\ val0' = groupA_value
    /\ sensitive_feature' = sensitive_feature_gender
    /\ u' = None
    /\ call' = [op |-> "__init__", arg |-> <<>>]
    /\ ret' = NoReturn
    /\ exc' = "none"
    /\ printed' = <<>>
    /\ UNCHANGED <<sensitive_feature_gender, data_matrix, fitted>>
    /\ UNCHANGED <<batchVars, tuneVars>>

\* Variants of Fit: a failing fit clears u, and a failing fit returns quietly.
Fit_clears(dataset) ==
    /\ constructed
    /\ call' = [op |-> "fit", arg |-> dataset]
    /\ ret' = NoReturn
    /\ printed' = <<>>
    /\ IF FitRaises(dataset, sensitive_feature, val0)
       THEN /\ exc' = "IndexError"
            /\ u' = None
            /\ UNCHANGED fitted
       ELSE /\ exc' = "none"
            /\ u' = FitU(dataset, sensitive_feature, val0)
            /\ fitted' = dataset
    /\ UNCHANGED <<sensitive_feature_gender, data_matrix, constructed, val0,
                   sensitive_feature>>
    /\ UNCHANGED <<batchVars, tuneVars>>
Fit_quiet(dataset) ==
    /\ constructed
    /\ call' = [op |-> "fit", arg |-> dataset]
    /\ ret' = NoReturn
    /\ printed' = <<>>
    /\ exc' = "none"
    /\ IF FitRaises(dataset, sensitive_feature, val0)
       THEN UNCHANGED <<u, fitted>>
       ELSE /\ u' = FitU(dataset, sensitive_feature, val0)
            /\ fitted' = dataset
    /\ UNCHANGED <<sensitive_feature_gender, data_matrix, constructed, val0,
                   sensitive_feature>>
    /\ UNCHANGED <<batchVars, tuneVars>>

\* uncorr_data.fit(dataset)
Fit(dataset) ==
    /\ constructed
    /\ call' = [op |-> "fit", arg |-> dataset]
    /\ ret' = NoReturn
    /\ printed' = <<>>
    /\ IF FitRaises(dataset, sensitive_feature, val0)
       THEN /\ exc' = "IndexError"
            /\ UNCHANGED <<u, fitted>>
       ELSE /\ exc' = "none"
            /\ u' = FitU(dataset, sensitive_feature, val0)
            /\ fitted' = dataset
    /\ UNCHANGED <<sensitive_feature_gender, data_matrix, constructed, val0,
                   sensitive_feature>>
    /\ UNCHANGED <<batchVars, tuneVars>>

\* uncorr_data.new_representation(examples)
NewRepresentation(examples) ==
    /\ constructed
    /\ call' = [op |-> "new_representation", arg |-> examples]
    /\ printed' = IF u = None THEN <<FitFirst>> ELSE <<>>
    /\ IF NewRepresentationRaises(examples, u)
       THEN /\ exc' = "IndexError"
            /\ ret' = NoReturn
       ELSE /\ exc' = "none"
            /\ ret' = Array(NewRepresentationValue(examples, sensitive_feature, val0, u))
    /\ UNCHANGED <<sensitive_feature_gender, data_matrix, constructed, val0,
                   sensitive_feature, u, fitted>>
    /\ UNCHANGED <<batchVars, tuneVars>>

\* The matrices the notebook hands to the object: the first b rows of the data.
Prefixes(m) == {SubSeq(m, 1, b) : b \in 0..Len(m)}

Next ==
    \/ \E v \in Vals : Construct(v)
    \/ \E d \in Prefixes(data_matrix) : Fit(d)
    \/ \E d \in Prefixes(data_matrix) : NewRepresentation(Features(d))

Spec == Init /\ [][Next]_vars

----------------------------------------------------------------------------
(* Properties of UncorrelationMethod                                       *)

\* The last call was new_representation on a fitted object, and it returned.
Transformed ==
    /\ call.op = "new_representation"
    /\ u # None
    /\ exc = "none"

\* Where input column j (j # sf) lands once column sf is gone.
OutCol(j, sf) == IF j < sf THEN j ELSE j - 1

GroupARows(m, sf, v0) == {r \in 1..Len(m) : m[r][sf] = v0}
GroupBRows(m, sf, v0) == {r \in 1..Len(m) : m[r][sf] # v0}
PosRows(m) == {r \in 1..Len(m) : Label(m[r]) = One}

\* The exact sum, and the exact mean, of column j of matrix m over the rows
\* in idxs.
RECURSIVE SumOver(_, _, _)
SumOver(m, idxs, j) ==
    IF idxs = {} THEN Zero
    ELSE LET r == CHOOSE x \in idxs : TRUE
         IN  RAdd(m[r][j], SumOver(m, idxs \ {r}, j))
MeanOver(m, idxs, j) == RDiv(SumOver(m, idxs, j), Rat(Cardinality(idxs), 1))

\* The same sum and mean in float arithmetic, the rows taken in their order.
RECURSIVE FloatSumOver(_, _, _)
FloatSumOver(m, idxs, j) ==
    LET last == CHOOSE x \in idxs : \A y \in idxs : y <= x
    IN  IF idxs = {last} THEN m[last][j]
        ELSE FAdd(FloatSumOver(m, idxs \ {last}, j), m[last][j])
FloatMeanOver(m, idxs, j) ==
    FDiv(FloatSumOver(m, idxs, j), Rat(Cardinality(idxs), 1))

\* The gap between two adjacent floats at 1.0 (the machine epsilon).
Epsilon == Rat(1, MinSignificand)

\* C1: a fitted new_representation returns every group-A row (sensitive value
\* equal to val0) as that row without its sensitive column: one entry fewer,
\* every other feature with its value, in its order.
C1_GroupAIdentity ==
    Transformed =>
        \A r \in GroupARows(call.arg, sensitive_feature, val0) :
            /\ Len(ret.val[r]) = Len(call.arg[r]) - 1
            /\ \A j \in (1..Len(call.arg[r])) \ {sensitive_feature} :
                   ret.val[r][OutCol(j, sensitive_feature)] = call.arg[r][j]

C1_Witness ==
    /\ Transformed
    /\ GroupARows(call.arg, sensitive_feature, val0) # {}
    /\ sensitive_feature = 2
    /\ \E r \in GroupARows(call.arg, sensitive_feature, val0) :
           call.arg[r][1] # call.arg[r][3]

\* The last call transformed the features of the dataset the object was
\* fitted on.
TransformedFitted ==
    /\ Transformed
    /\ fitted # None
    /\ call.arg = Features(fitted)

\* The mean of column j of the returned matrix over the label-1 rows of group
\* A, less that over the label-1 rows of the other group.
PositiveMeanGap(j) ==
    LET A == GroupARows(fitted, sensitive_feature, val0) \cap PosRows(fitted)
        B == GroupBRows(fitted, sensitive_feature, val0) \cap PosRows(fitted)
    IN  RSub(MeanOver(ret.val, A, j), MeanOver(ret.val, B, j))

C3_FitFormula ==
    (call.op = "fit" /\ exc = "none") =>
        LET D == call.arg
            A == GroupARows(D, sensitive_feature, val0) \cap PosRows(D)
            B == GroupBRows(D, sensitive_feature, val0) \cap PosRows(D)
        IN  /\ Len(u) = NumCols - 1
            /\ u[sensitive_feature] = MinusOne
            /\ \A j \in (1..(NumCols - 1)) \ {sensitive_feature} :
                   u[j] = FSub(FloatMeanOver(D, A, j), FloatMeanOver(D, B, j))

C3_Witness ==
    /\ call.op = "fit"
    /\ exc = "none"
    /\ Len(call.arg) = 3
    /\ val0 = One
    /\ Cardinality(GroupBRows(call.arg, sensitive_feature, val0) \cap PosRows(call.arg)) = 2
    /\ \E j \in (1..NumFeatures) \ {sensitive_feature} : RLess(u[j], Zero)

\* C4: new_representation on an object no fit has completed on returns its
\* argument as it is, prints the fit-first message and raises nothing.
C4_UnfittedPassThrough ==
    (call.op = "new_representation" /\ fitted = None) =>
        /\ exc = "none"
        /\ ret = Array(call.arg)
        /\ printed = <<FitFirst>>

C4_Witness ==
    /\ call.op = "new_representation"
    /\ fitted = None
    /\ Len(call.arg) = 2
    /\ ret.kind = "array"
    /\ Len(ret.val[1]) = NumFeatures

\* C5: a fitted new_representation returns every row of the other group
\* (sensitive value different from val0) as x + u without the sensitive column.
C5_GroupBShift ==
    Transformed =>
        \A r \in GroupBRows(call.arg, sensitive_feature, val0) :
            /\ Len(ret.val[r]) = Len(call.arg[r]) - 1
            /\ \A j \in (1..Len(call.arg[r])) \ {sensitive_feature} :
                   ret.val[r][OutCol(j, sensitive_feature)] = FAdd(call.arg[r][j], u[j])

C5_Witness ==
    /\ Transformed
    /\ \E r \in GroupBRows(call.arg, sensitive_feature, val0) :
           \E j \in (1..NumFeatures) \ {sensitive_feature} :
               /\ u[j] # Zero
               /\ ret.val[r][OutCol(j, sensitive_feature)] # call.arg[r][j]

\* C6: fit before transform.  u is None from construction until a fit
\* completes, a completed fit leaves u set, no step takes u back to None, and
\* new_representation changes its argument only when u is set.
C6_FitBeforeTransform ==
    [][/\ (call'.op = "__init__" => u' = None)
       /\ (u = None /\ u' # None => call'.op = "fit" /\ exc' = "none")
       /\ (call'.op = "fit" /\ exc' = "none" => u' # None)
       /\ (u # None => u' # None)
       /\ (call'.op = "new_representation" /\ ret' # Array(call'.arg) => u # None)]_vars

C6_Witness ==
    /\ call.op = "fit"
    /\ exc = "IndexError"
    /\ u # None

\* C7: a fit on a dataset in which group A or the other group has no label-1
\* row raises, and leaves u as it was.
C7_FitFailsOnEmptyGroup ==
    [][(/\ call'.op = "fit"
        /\ \/ GroupARows(call'.arg, sensitive_feature, val0) \cap PosRows(call'.arg) = {}
           \/ GroupBRows(call'.arg, sensitive_feature, val0) \cap PosRows(call'.arg) = {})
       => (exc' # "none" /\ u' = u)]_vars

C7_Witness ==
    /\ call.op = "fit"
    /\ exc # "none"
    /\ GroupARows(call.arg, sensitive_feature, val0) \cap PosRows(call.arg) # {}
    /\ GroupBRows(call.arg, sensitive_feature, val0) # {}
    /\ GroupBRows(call.arg, sensitive_feature, val0) \cap PosRows(call.arg) = {}

\* C8: with sensitive index i, a fitted new_representation returns, for every
\* row with x_i = 0 in group A or x_i = 1 in the other group, the documented
\* x_j - x_i * u_j / u_i in every column j # i.
C8_DocumentedFormula ==
    Transformed =>
        \A r \in 1..Len(call.arg) :
            LET x == call.arg[r]
                i == sensitive_feature
            IN  ((x[i] = Zero /\ x[i] = val0) \/ (x[i] = One /\ x[i] # val0)) =>
                    \A j \in (1..Len(x)) \ {i} :
                        ret.val[r][OutCol(j, i)]
                            = FSub(x[j], FMul(x[i], FDiv(u[j], u[i])))

C8_Witness ==
    /\ Transformed
    /\ val0 = Zero
    /\ \E r \in 1..Len(call.arg) :
           /\ call.arg[r][sensitive_feature] = One
           /\ \E j \in (1..NumFeatures) \ {sensitive_feature} : u[j] # Zero

\* C9: a fitted new_representation returns, for every input, a matrix with the
\* rows of its input in their order, each one column shorter.
C9_ShapePreserved ==
    (call.op = "new_representation" /\ u # None) =>
        /\ exc = "none"
        /\ ret.kind = "array"
        /\ Len(ret.val) = Len(call.arg)
        /\ \A r \in 1..Len(call.arg) :
               /\ Len(ret.val[r]) = Len(call.arg[r]) - 1
               /\ \A j \in (1..Len(call.arg[r])) \ {sensitive_feature} :
                      ret.val[r][OutCol(j, sensitive_feature)]
                          = IF call.arg[r][sensitive_feature] = val0
                            THEN call.arg[r][j]
                            ELSE FAdd(call.arg[r][j], u[j])

----------------------------------------------------------------------------
(* The DEO measure                                                         *)

RECURSIVE SortedSeq(_)
SortedSeq(S) ==
    IF S = {} THEN <<>>
    ELSE LET m == CHOOSE x \in S : \A y \in S : x <= y
         IN  <<m>> \o SortedSeq(S \ {m})

\* sklearn's confusion_matrix(y_true, y_pred).ravel(): one row and one column
\* per label that occurs in y_true or y_pred, labels in increasing order.
ConfusionRavel(y_true, y_pred) ==
    LET labels == SortedSeq({y_true[k] : k \in 1..Len(y_true)}
                            \cup {y_pred[k] : k \in 1..Len(y_pred)})
        n == Len(labels)
    IN  [p \in 1..(n * n) |->
            Cardinality({k \in 1..Len(y_true) :
                /\ y_true[k] = labels[((p - 1) \div n) + 1]
                /\ y_pred[k] = labels[((p - 1) % n) + 1]})]

\* np.where(dataset[idxs][:, -1] == 1, 1, 0)
TrueLabels(dataset, idxs) ==
    [k \in 1..Len(idxs) |-> IF Label(dataset[idxs[k]]) = One THEN 1 ELSE 0]
\* predictions[idxs]
Picked(predictions, idxs) == [k \in 1..Len(idxs) |-> predictions[idxs[k]]]

GroupConfusion(dataset, predictions, idxs) ==
    ConfusionRavel(TrueLabels(dataset, idxs), Picked(predictions, idxs))

\* tn, fp, fn, tp = ...ravel() needs exactly four values.
DeoFromListRaises(dataset, predictions, groupA_idxs, groupB_idxs) ==
    \/ Len(GroupConfusion(dataset, predictions, groupA_idxs)) # 4
    \/ Len(GroupConfusion(dataset, predictions, groupB_idxs)) # 4

\* float(tp) / (tp + fn) of a raveled 2 x 2 matrix <<tn, fp, fn, tp>>
Tpr(cm) == FDiv(Rat(cm[4], 1), Rat(cm[4] + cm[3], 1))

\* What deo_from_list returns when it returns.
deo_from_list(dataset, predictions, groupA_idxs, groupB_idxs) ==
    RAbs(FSub(Tpr(GroupConfusion(dataset, predictions, groupA_idxs)),
              Tpr(GroupConfusion(dataset, predictions, groupB_idxs))))

RECURSIVE ColMax(_, _)
ColMax(dataset, j) ==
    IF Len(dataset) = 1 THEN dataset[1][j]
    ELSE LET m == ColMax(Tail(dataset), j)
         IN  IF RLess(m, dataset[1][j]) THEN dataset[1][j] ELSE m

\* [idx for idx, val in enumerate(dataset) if val[sensitive_feature] == v]
RECURSIVE IdxsWhere(_, _, _, _)
IdxsWhere(dataset, sf, v, from) ==
    IF from > Len(dataset) THEN <<>>
    ELSE (IF dataset[from][sf] = v THEN <<from>> ELSE <<>>)
             \o IdxsWhere(dataset, sf, v, from + 1)
\* Variant of IdxsWhereNot: group B takes the rows whose value is greater.
RECURSIVE IdxsWhereNot_greater(_, _, _, _)
IdxsWhereNot_greater(dataset, sf, v, from) ==
    IF from > Len(dataset) THEN <<>>
    ELSE (IF RLess(v, dataset[from][sf]) THEN <<from>> ELSE <<>>)
             \o IdxsWhereNot_greater(dataset, sf, v, from + 1)

\* [idx for idx, val in enumerate(dataset) if val[sensitive_feature] != v]
RECURSIVE IdxsWhereNot(_, _, _, _)
IdxsWhereNot(dataset, sf, v, from) ==
    IF from > Len(dataset) THEN <<>>
    ELSE (IF dataset[from][sf] # v THEN <<from>> ELSE <<>>)
             \o IdxsWhereNot(dataset, sf, v, from + 1)

\* deo_from_model(model, data_matrix, sensitive_feature_gender, groupA_value);
\* predictions are what model.predict answers for the rows, one 0 or 1 each.
\* The prints of deo_from_list raise nothing and are left out.
DeoFromModel(groupA_value, predictions) ==
    /\ UNCHANGED <<sensitive_feature_gender, data_matrix, constructed, val0,
                   sensitive_feature, u, fitted, printed>>
    /\ UNCHANGED <<batchVars, tuneVars>>
    /\ LET sf == sensitive_feature_gender IN
       IF groupA_value = None /\ data_matrix = <<>>
       THEN \* np.max of an empty column
            /\ call' = [op |-> "deo_from_model",
                        arg |-> [sensitive_feature |-> sf, groupA_value |-> None,
                                 predictions |-> predictions,
                                 groupA_idxs |-> <<>>, groupB_idxs |-> <<>>]]
            /\ exc' = "ValueError"
            /\ ret' = NoReturn
       ELSE LET v == IF groupA_value = None THEN ColMax(data_matrix, sf) ELSE groupA_value
                groupA_idxs == IdxsWhere(data_matrix, sf, v, 1)
                groupB_idxs == IdxsWhereNot(data_matrix, sf, v, 1)
            IN  /\ call' = [op |-> "deo_from_model",
                            arg |-> [sensitive_feature |-> sf, groupA_value |-> v,
                                     predictions |-> predictions,
                                     groupA_idxs |-> groupA_idxs,
                                     groupB_idxs |-> groupB_idxs]]
                /\ IF DeoFromListRaises(data_matrix, predictions, groupA_idxs, groupB_idxs)
                   THEN /\ exc' = "ValueError"
                        /\ ret' = NoReturn
                   ELSE /\ exc' = "none"
                        /\ ret' = Scalar(deo_from_list(data_matrix, predictions,
                                                       groupA_idxs, groupB_idxs))

\* The notebook measures the loaded data once.
NextDeo ==
    /\ call.op = "load"
    /\ \E v \in {None} \cup Vals, p \in [1..Len(data_matrix) -> {0, 1}] :
           DeoFromModel(v, p)

SpecDeo == Init /\ [][NextDeo]_vars

\* The label-1 rows among idxs, and those of them predicted 1.
Positives(dataset, idxs) ==
    {k \in 1..Len(idxs) : Label(dataset[idxs[k]]) = One}
TruePositives(dataset, predictions, idxs) ==
    {k \in Positives(dataset, idxs) : predictions[idxs[k]] = 1}
TruePositiveRate(dataset, predictions, idxs) ==
    FDiv(Rat(Cardinality(TruePositives(dataset, predictions, idxs)), 1),
         Rat(Cardinality(Positives(dataset, idxs)), 1))

\* C10: when both groups hold a label-1 row, deo_from_list returns the absolute
\* difference of the two groups' true-positive rates, (label-1 rows predicted
\* 1) / (label-1 rows).
C10_DeoIsTprGap ==
    (/\ call.op = "deo_from_model"
     /\ Positives(data_matrix, call.arg.groupA_idxs) # {}
     /\ Positives(data_matrix, call.arg.groupB_idxs) # {})
    => /\ exc = "none"
       /\ ret = Scalar(RAbs(FSub(
              TruePositiveRate(data_matrix, call.arg.predictions, call.arg.groupA_idxs),
              TruePositiveRate(data_matrix, call.arg.predictions, call.arg.groupB_idxs))))

\* How often x occurs in the sequence s.
Occurrences(s, x) == Cardinality({k \in 1..Len(s) : s[k] = x})

\* deo_from_model got as far as splitting the rows into the two groups.
Partitioned ==
    /\ call.op = "deo_from_model"
    /\ call.arg.groupA_value # None

\* C19: deo_from_model puts every row index in exactly one of groupA_idxs and
\* groupB_idxs, once, and in groupA_idxs exactly when the row's sensitive value
\* equals groupA_value, also when no row holds that value.
C19_GroupsPartitionRows ==
    Partitioned =>
        \A r \in 1..Len(data_matrix) :
            LET inA == Occurrences(call.arg.groupA_idxs, r)
                inB == Occurrences(call.arg.groupB_idxs, r)
            IN  /\ inA + inB = 1
                /\ inA = 1 <=> data_matrix[r][call.arg.sensitive_feature]
                                   = call.arg.groupA_value

C19_Witness ==
    /\ Partitioned
    /\ Len(data_matrix) = MaxRows
    /\ call.arg.groupA_value = One
    /\ call.arg.groupA_idxs = <<>>
    /\ Len(call.arg.groupB_idxs) = MaxRows

----------------------------------------------------------------------------
(* The batch-transform notebook: the data and its three-way split          *)

\* The fairness notebook, not run.
FairnessIdle ==
    /\ sensitive_feature_gender = 1
    /\ data_matrix = <<>>
    /\ constructed = FALSE
    /\ val0 = Zero
    /\ sensitive_feature = 0
    /\ u = None
    /\ fitted = None
    /\ call = [op |-> "load", arg |-> <<>>]
    /\ ret = NoReturn
    /\ exc = "none"
    /\ printed = <<>>

\* a >= b on floats
RGeq(a, b) == ~IsNaN(a) /\ ~IsNaN(b) /\ ~RLess(a, b)

\* data.columns: the id, the diagnosis and the predictors.
FeatureNames == <<"radius_mean", "texture_mean", "perimeter_mean", "area_mean">>
Columns == <<"id", "diagnosis">> \o SubSeq(FeatureNames, 1, NumPredictors)

\* The ids of the rows.
Ids == [r \in 1..MaxRecords |-> 842300 + r]
\* Two measurements, one below and one above the models' split.
Small == Fl(Rat(1799, 100))
Large == Fl(Rat(2057, 100))
\* A row after its id: the diagnosis (1 for "M", 0 for "B"), then the
\* predictors.  The rows are drawn from two samples, a malignant and a benign
\* tumor, whose measurements differ in every column.
Bodies ==
    {<<d>> \o [j \in 1..NumPredictors |-> IF (j + d) % 2 = 0 THEN Small ELSE Large] :
        d \in {0, 1}}

\* A data frame: the column names, the row labels and the rows.
Frame(columns, index, rows) == [columns |-> columns, index |-> index, rows |-> rows]
\* pd.read_csv(..., header=None) with data.columns set: rows labelled 0, 1, ...
LoadedFrame(body) ==
    Frame(Columns, [r \in 1..MaxRecords |-> r - 1],
          [r \in 1..MaxRecords |-> <<Ids[r]>> \o body[r]])

\* The places, in their order, where mask holds.
RECURSIVE Where(_, _)
Where(mask, from) ==
    IF from > Len(mask) THEN <<>>
    ELSE (IF mask[from] THEN <<from>> ELSE <<>>) \o Where(mask, from + 1)

\* df[mask]
Masked(frame, mask) ==
    LET at == Where(mask, 1)
    IN  Frame(frame.columns,
              [k \in 1..Len(at) |-> frame.index[at[k]]],
              [k \in 1..Len(at) |-> frame.rows[at[k]]])

\* seq without its p-th entry
Without(seq, p) == [j \in 1..(Len(seq) - 1) |-> IF j < p THEN seq[j] ELSE seq[j + 1]]

\* df.drop([name], axis=1), name a column of df
Drop(frame, name) ==
    LET p == CHOOSE j \in 1..Len(frame.columns) : frame.columns[j] = name
    IN  Frame(Without(frame.columns, p), frame.index,
              [r \in 1..Len(frame.rows) |-> Without(frame.rows[r], p)])

\* The literals 0.8 and 0.9 as floats.
Threshold8 == Fl(Rat(8, 10))
Threshold9 == Fl(Rat(9, 10))

\* rand_split < 0.8
TrainMask(rs) == [r \in 1..Len(rs) |-> RLess(rs[r], Threshold8)]

\* Variant of ValMask: the lower end left out, (rand_split > 0.8).
ValMask_open(rs) ==
    [r \in 1..Len(rs) |-> RLess(Threshold8, rs[r]) /\ RLess(rs[r], Threshold9)]

\* (rand_split >= 0.8) & (rand_split < 0.9)
ValMask(rs) ==
    [r \in 1..Len(rs) |-> RGeq(rs[r], Threshold8) /\ RLess(rs[r], Threshold9)]
\* rand_split >= 0.9
BatchMask(rs) == [r \in 1..Len(rs) |-> RGeq(rs[r], Threshold9)]

\* The kernel after the cells that load the data and recode the diagnosis.
BatchLoaded ==
    /\ \E body \in [1..MaxRecords -> Bodies] : data = LoadedFrame(body)
    /\ rand_split = None
    /\ train_list = None
    /\ val_list = None
    /\ batch_list = None
    /\ data_train = None
    /\ data_val = None
    /\ data_batch = None
    /\ data_batch_noID = None
    /\ s3 = NoObjects
    /\ bpc = "split"
    /\ jobs = <<>>
    /\ xgb_model = None
    /\ output_path = None
    /\ output = None
    /\ waited = {}
    /\ read_of = 0
    /\ bexc = "none"

\* The cell that splits the data; rs is what np.random.rand(len(data)) returns.
SplitCell(rs) ==
    /\ bpc = "split"
    /\ rand_split' = rs
    /\ train_list' = TrainMask(rs)
    /\ val_list' = ValMask(rs)
    /\ batch_list' = BatchMask(rs)
    /\ data_train' = Drop(Masked(data, TrainMask(rs)), "id")
    /\ data_val' = Drop(Masked(data, ValMask(rs)), "id")
    /\ data_batch' = Drop(Masked(data, BatchMask(rs)), "diagnosis")
    /\ data_batch_noID' = Drop(Drop(Masked(data, BatchMask(rs)), "diagnosis"), "id")
    /\ bpc' = "upload"
    /\ UNCHANGED <<data, s3, jobs, xgb_model, output_path, output, waited, read_of,
                   bexc>>
    /\ UNCHANGED <<fairVars, tuneVars>>

\* The gap between adjacent floats in [0.5, 1).
Ulp == Rat(1, 2 * MinSignificand)
\* Values of np.random.rand, all in [0, 1): the two thresholds, the floats
\* next to them, and the ends of the range.
RandValues ==
    {Zero, RSub(Threshold8, Ulp), Threshold8, RSub(Threshold9, Ulp), Threshold9,
     RSub(One, Ulp)}

InitSplit == FairnessIdle /\ TuningIdle /\ BatchLoaded
\* The cell runs once, on the data as loaded.
NextSplit ==
    /\ bpc = "split"
    /\ \E rs \in [1..MaxRecords -> RandValues] : SplitCell(rs)
SpecSplit == InitSplit /\ [][NextSplit]_vars

\* The sets a row is in after the split.
SetsOf(r) ==
    {m \in {"train", "val", "batch"} :
        \/ m = "train" /\ train_list[r]
        \/ m = "val" /\ val_list[r]
        \/ m = "batch" /\ batch_list[r]}

\* C18: after the split every row is in exactly one of the three sets: the
\* training set when its rand_split is below 0.8, the batch set when it is 0.9
\* or more, the validation set otherwise; and the three frames hold the rows.
C18_SplitPartitions ==
    rand_split # None =>
        /\ \A r \in 1..Len(data.rows) :
               /\ Cardinality(SetsOf(r)) = 1
               /\ train_list[r] <=> RLess(rand_split[r], Threshold8)
               /\ batch_list[r] <=> ~RLess(rand_split[r], Threshold9)
        /\ Len(data_train.rows) + Len(data_val.rows) + Len(data_batch.rows)
               = Len(data.rows)
        /\ \A r \in 1..Len(data.rows) :
               Occurrences(data_train.index, r - 1)
                   + Occurrences(data_val.index, r - 1)
                   + Occurrences(data_batch.index, r - 1) = 1

C18_Witness ==
    /\ rand_split # None
    /\ rand_split[1] = Threshold8
    /\ rand_split[2] = Threshold9
    /\ val_list[1]
    /\ batch_list[2]

----------------------------------------------------------------------------
(* The batch-transform notebook: the files, the jobs and the reads         *)

\* df.to_csv(file, index=index, header=header): the lines of the file, each
\* line the sequence of its comma-separated fields.
ToCsv(frame, index, header) ==
    LET lead(x) == IF index THEN <<x>> ELSE <<>>
    IN  (IF header THEN <<lead("") \o frame.columns>> ELSE <<>>)
            \o [r \in 1..Len(frame.rows) |-> lead(frame.index[r]) \o frame.rows[r]]

train_file == "train_data.csv"
validation_file == "validation_data.csv"
batch_file == "batch_data.csv"
batch_file_noID == "batch_data_noID.csv"

\* An object key: the folder under the bucket's prefix, or a job's output
\* path, and the file name.
Key(folder, file) == <<folder, file>>
\* "{}.out".format(file)
OutFile(file) ==
    IF file = batch_file THEN "batch_data.csv.out" ELSE "batch_data_noID.csv.out"

\* The bucket with body stored under key.
Put(store, key, body) ==
    [k \in DOMAIN store \cup {key} |-> IF k = key THEN body ELSE store[k]]

\* The cell that writes the four files and uploads them.
UploadCell ==
    /\ bpc = "upload"
    /\ s3' = Put(Put(Put(Put(s3,
                 Key("train", train_file), ToCsv(data_train, FALSE, FALSE)),
                 Key("validation", validation_file), ToCsv(data_val, FALSE, FALSE)),
                 Key("batch", batch_file), ToCsv(data_batch, FALSE, FALSE)),
                 Key("batch", batch_file_noID), ToCsv(data_batch_noID, FALSE, FALSE))
    /\ bpc' = "train"
    /\ UNCHANGED <<data, splitVars, jobs, xgb_model, output_path, output, waited,
                   read_of, bexc>>
    /\ UNCHANGED <<fairVars, tuneVars>>

\* A job of the service.  A training job uses none of the transform settings.
Job(kind, name, input, input_filter, join_source, output_filter, assemble_with) ==
    [kind |-> kind, name |-> name, status |-> "InProgress", input |-> input,
     input_filter |-> input_filter, join_source |-> join_source,
     output_filter |-> output_filter, assemble_with |-> assemble_with]

\* sm_estimator.fit(inputs=data_channels, logs=True) starts the training job...
StartTraining ==
    /\ bpc = "train"
    /\ jobs' = Append(jobs, Job("training", "xgb", Key("train", train_file),
                                "$", "None", "$", "None"))
    /\ bpc' = "training"
    /\ UNCHANGED <<data, splitVars, s3, xgb_model, output_path, output, waited,
                   read_of, bexc>>
    /\ UNCHANGED <<fairVars, tuneVars>>

\* The step after each step of the notebook that can end a cell.
AfterStep(step) ==
    CASE step = "training" -> "transform1"
      [] step = "wait1" -> "read1"
      [] step = "read1" -> "transform2"
      [] step = "wait2" -> "read2"
      [] step = "read2" -> "transform3"
      [] step = "wait3" -> "read3"
      [] step = "read3" -> "done"

\* Variant of Blocked: the call returns whatever the job's status.
Blocked_never(job) == FALSE

\* A call that waits for a job does not return while the job is in progress.
Blocked(job) == job.status = "InProgress"

\* ... and returns when the job has ended: it raises when the job failed.
FitReturns ==
    /\ bpc = "training"
    /\ ~Blocked(jobs[Len(jobs)])
    /\ IF jobs[Len(jobs)].status = "Completed"
       THEN /\ bpc' = AfterStep(bpc)
            /\ waited' = waited \cup {Len(jobs)}
            /\ UNCHANGED bexc
       ELSE /\ bpc' = "stopped"
            /\ bexc' = "UnexpectedStatusException"
            /\ UNCHANGED waited
    /\ UNCHANGED <<data, splitVars, s3, jobs, xgb_model, output_path, output, read_of>>
    /\ UNCHANGED <<fairVars, tuneVars>>

\* The names the SDK gives the transform jobs, from the time of each call.
TransformNames == <<"xgb-transform-1", "xgb-transform-2", "xgb-transform-3">>
TransformJobs(js) == {j \in 1..Len(js) : js[j].kind = "transform"}

\* sm_transformer.transform(input_location, ...): the job is started, and
\* output_path is set anew to the job's own path.
Transform(step, next, file, input_filter, join_source, output_filter, assemble_with) ==
    /\ bpc = step
    /\ LET name == TransformNames[Cardinality(TransformJobs(jobs)) + 1]
       IN  /\ jobs' = Append(jobs, Job("transform", name, Key("batch", file),
                                       input_filter, join_source, output_filter,
                                       assemble_with))
           /\ output_path' = name
    /\ bpc' = next
    /\ UNCHANGED <<data, splitVars, s3, xgb_model, output, waited, read_of, bexc>>
    /\ UNCHANGED <<fairVars, tuneVars>>

\* 1. the job with the default configuration, on the file without the ids
TransformCell1 ==
    Transform("transform1", "wait1", batch_file_noID, "$", "None", "$", "None")
\* Variant of TransformCell2: the cell does not wait for its job.
TransformCell2_no_wait ==
    Transform("transform2", "read2", batch_file, "$[1:]", "Input", "$", "Line")

\* 2. the input joined to the prediction
TransformCell2 ==
    Transform("transform2", "wait2", batch_file, "$[1:]", "Input", "$", "Line")
\* 3. the id and the prediction kept
TransformCell3 ==
    Transform("transform3", "wait3", batch_file, "$[1:]", "Input", "$[0,-1]", "Line")

\* sm_transformer.wait(): returns when the latest transform job has ended,
\* and raises when the job failed.
Wait ==
    /\ bpc \in {"wait1", "wait2", "wait3"}
    /\ ~Blocked(jobs[Len(jobs)])
    /\ IF jobs[Len(jobs)].status = "Completed"
       THEN /\ bpc' = AfterStep(bpc)
            /\ waited' = waited \cup {Len(jobs)}
            /\ UNCHANGED bexc
       ELSE /\ bpc' = "stopped"
            /\ bexc' = "UnexpectedStatusException"
            /\ UNCHANGED waited
    /\ UNCHANGED <<data, splitVars, s3, jobs, xgb_model, output_path, output, read_of>>
    /\ UNCHANGED <<fairVars, tuneVars>>

\* output = get_csv_output_from_s3(sm_transformer.output_path, file + ".out")
\* and pd.read_csv of it, which raises on a file without lines.
Read(step, file) ==
    /\ bpc = step
    /\ LET key == Key(output_path, OutFile(file))
       IN  IF key \notin DOMAIN s3
           THEN /\ bpc' = "stopped"
                /\ bexc' = "NoSuchKey"
                /\ UNCHANGED <<output, read_of>>
           ELSE /\ output' = s3[key]
                /\ read_of' = CHOOSE j \in 1..Len(jobs) : jobs[j].name = output_path
                /\ IF s3[key] = <<>>
                   THEN bpc' = "stopped" /\ bexc' = "EmptyDataError"
                   ELSE bpc' = AfterStep(bpc) /\ UNCHANGED bexc
    /\ UNCHANGED <<data, splitVars, s3, jobs, xgb_model, output_path, waited>>
    /\ UNCHANGED <<fairVars, tuneVars>>

ReadCell1 == Read("read1", batch_file_noID)
ReadCell2 == Read("read2", batch_file)
ReadCell3 == Read("read3", batch_file)

----------------------------------------------------------------------------
(* The service: what a training job and a transform job do                 *)

\* The predictions of a model: probabilities of a malignant tumor.
Low == Fl(Rat(3, 100))
High == Fl(Rat(97, 100))
\* The models training may produce: a tree that splits on one predictor.
Models == {[feature |-> j, split |-> Fl(Rat(19, 1))] : j \in 1..NumPredictors}

\* The model's answer for the fields of one record.
Predict(m, input) == IF RLess(m.split, input[m.feature]) THEN High ELSE Low

\* Variant of Slice: from counted from 1.
Slice_from_one(record, from) == SubSeq(record, from, Len(record))

\* JSONPath $[from:] on a record, the fields counted from 0.
Slice(record, from) == SubSeq(record, from + 1, Len(record))

\* Variant of At: a negative index counted from the last field, not past it.
At_from_last(record, i) ==
    IF i < 0 THEN record[Len(record) + i] ELSE record[i + 1]

\* JSONPath $[i] on a record: the fields counted from 0, and from the end
\* when i is negative.
At(record, i) == IF i < 0 THEN record[Len(record) + i + 1] ELSE record[i + 1]

\* The filters the notebook uses.
ApplyFilter(filter, record) ==
    CASE filter = "$" -> record
      [] filter = "$[1:]" -> Slice(record, 1)
      [] filter = "$[0,-1]" -> <<At(record, 0), At(record, -1)>>

\* join_source "Input": the input record with the prediction after it.
Joined(record, input, prediction, join_source) ==
    IF join_source = "Input" THEN record \o <<prediction>> ELSE <<prediction>>

\* What a transform job writes for one record of its input.
TransformRecord(m, record, job) ==
    LET input == ApplyFilter(job.input_filter, record)
    IN  ApplyFilter(job.output_filter,
                    Joined(record, input, Predict(m, input), job.join_source))

\* The model takes a record of as many fields as it was trained on.
Accepted(record, job) == Len(ApplyFilter(job.input_filter, record)) = NumPredictors

\* Variant of TransformLines: the predictions attached in the reverse order.
TransformLines_reversed(m, lines, job) ==
    [k \in 1..Len(lines) |->
        ApplyFilter(job.output_filter,
            Joined(lines[k], ApplyFilter(job.input_filter, lines[k]),
                   Predict(m, ApplyFilter(job.input_filter, lines[Len(lines) + 1 - k])),
                   job.join_source))]

\* The output of a transform job: split_type "Line" makes every line of the
\* input a record, and the results are written one per line, in that order.
TransformLines(m, lines, job) ==
    [k \in 1..Len(lines) |-> TransformRecord(m, lines[k], job)]

\* A job in progress ends.  A training job that completes leaves a model; a
\* transform job completes only when the model accepts every record, and
\* then its output is in the bucket, under the job's name and the name of the
\* input file with ".out".  Any job may fail.
JobEnds(j, status, m) ==
    /\ j \in 1..Len(jobs)
    /\ jobs[j].status = "InProgress"
    /\ jobs' = [jobs EXCEPT ![j].status = status]
    /\ IF status = "Failed"
       THEN UNCHANGED <<xgb_model, s3>>
       ELSE IF jobs[j].kind = "training"
       THEN /\ xgb_model' = m
            /\ UNCHANGED s3
       ELSE /\ m = xgb_model
            /\ \A k \in 1..Len(s3[jobs[j].input]) : Accepted(s3[jobs[j].input][k], jobs[j])
            /\ s3' = Put(s3, Key(jobs[j].name, OutFile(jobs[j].input[2])),
                         TransformLines(xgb_model, s3[jobs[j].input], jobs[j]))
            /\ UNCHANGED xgb_model
    /\ UNCHANGED <<data, splitVars, bpc, output_path, output, waited, read_of, bexc>>
    /\ UNCHANGED <<fairVars, tuneVars>>

\* Values of np.random.rand that put a row in each of the three sets.
SplitValues == {Fl(Rat(1, 2)), Threshold8, Threshold9}

InitBatch == FairnessIdle /\ TuningIdle /\ BatchLoaded

\* The steps after the split: the cells in their order, and the service.
BatchSteps ==
    \/ UploadCell
    \/ StartTraining
    \/ FitReturns
    \/ TransformCell1
    \/ TransformCell2
    \/ TransformCell3
    \/ Wait
    \/ ReadCell1
    \/ ReadCell2
    \/ ReadCell3
    \/ \E j \in 1..Len(jobs), status \in {"Completed", "Failed"}, m \in Models :
           JobEnds(j, status, m)

NextBatch ==
    \/ \E rs \in [1..MaxRecords -> SplitValues] : SplitCell(rs)
    \/ BatchSteps

SpecBatch == InitBatch /\ [][NextBatch]_vars

----------------------------------------------------------------------------
(* Properties of the batch-transform notebook                              *)

\* The predictors of the row of data with label l (columns 3 and on).
Predictors(l) == SubSeq(data.rows[l + 1], 3, Len(data.rows[l + 1]))
\* The id of that row.
IdOf(l) == data.rows[l + 1][1]

\* The transform jobs started with input_filter "$[1:]".
FilteringJobs == {j \in TransformJobs(jobs) : jobs[j].input_filter = "$[1:]"}

\* C12: the input filter "$[1:]" takes every record of the batch file with
\* the ids to the record of the batch file without them at the same place:
\* the id is gone and what is left are the predictors of that row, the columns
\* of the training file after its label, in their order.
C12_FilterGivesNoIdRecord ==
    \A j \in FilteringJobs :
        LET with == s3[jobs[j].input]
            without == s3[Key("batch", batch_file_noID)]
        IN  /\ jobs[j].input = Key("batch", batch_file)
            /\ Len(with) = Len(without)
            /\ Len(with) = Len(data_batch.index)
            /\ \A k \in 1..Len(with) :
                   /\ ApplyFilter(jobs[j].input_filter, with[k]) = without[k]
                   /\ with[k][1] = IdOf(data_batch.index[k])
                   /\ without[k] = Predictors(data_batch.index[k])
                   /\ Len(without[k]) = NumPredictors
            /\ data_batch.columns[1] = "id"
            /\ data_train.columns[1] = "diagnosis"
            /\ ApplyFilter(jobs[j].input_filter, data_batch.columns)
                   = Tail(data_train.columns)
            /\ Tail(data_train.columns) = data_batch_noID.columns

C12_Witness ==
    /\ FilteringJobs # {}
    /\ Len(s3[Key("batch", batch_file)]) = 2
    /\ Len(s3[Key("train", train_file)]) = 1
    /\ Len(s3[Key("validation", validation_file)]) = 1
    /\ s3[Key("batch", batch_file_noID)][1] # s3[Key("batch", batch_file_noID)][2]
    /\ s3[Key("batch", batch_file_noID)][1][1] # s3[Key("batch", batch_file_noID)][1][2]

\* The output last read is that of a job that joined its input, with the
\* given output filter.
ReadJoined(output_filter) ==
    /\ read_of # 0
    /\ jobs[read_of].join_source = "Input"
    /\ jobs[read_of].input_filter = "$[1:]"
    /\ jobs[read_of].output_filter = output_filter

\* C13: the output of the job with input_filter "$[1:]", join_source "Input"
\* and the default output filter has one record for every record of the batch
\* file, in the order of the file: the whole input record, its id first,
\* followed by the model's prediction for the predictors of the row with that
\* id.
C13_JoinedOutput ==
    ReadJoined("$") =>
        LET input == s3[jobs[read_of].input]
        IN  /\ Len(output) = Len(input)
            /\ Len(output) = Len(data_batch.index)
            /\ \A k \in 1..Len(output) :
                   LET l == data_batch.index[k]
                   IN  /\ output[k] = input[k] \o <<Predict(xgb_model, Predictors(l))>>
                       /\ output[k][1] = IdOf(l)
                       /\ SubSeq(output[k], 2, Len(output[k]) - 1) = Predictors(l)

C13_Witness ==
    /\ ReadJoined("$")
    /\ Len(output) = 2
    /\ output[1][Len(output[1])] = High
    /\ output[2][Len(output[2])] = Low
    /\ data_train.rows # <<>>
    /\ data_val.rows # <<>>
    /\ bpc = "transform3"

\* C14: the output of the job with input_filter "$[1:]", join_source "Input"
\* and output_filter "$[0,-1]" has, for every record of the batch file, a record
\* of two fields: the id of the input record and the model's prediction for
\* the predictors of the row with that id.
C14_IdAndPrediction ==
    ReadJoined("$[0,-1]") =>
        LET input == s3[jobs[read_of].input]
        IN  /\ Len(output) = Len(input)
            /\ \A k \in 1..Len(output) :
                   LET l == data_batch.index[k]
                   IN  /\ Len(output[k]) = 2
                       /\ output[k][1] = input[k][1]
                       /\ output[k][1] = IdOf(l)
                       /\ output[k][2] = Predict(xgb_model, Predictors(l))

C14_Witness ==
    /\ ReadJoined("$[0,-1]")
    /\ Len(output) = 2
    /\ output[1][2] = Low
    /\ output[2][2] = High
    /\ data_train.rows # <<>>
    /\ data_val.rows # <<>>
    /\ bpc = "done"

\* The transform jobs in progress.
InProgress == {j \in TransformJobs(jobs) : jobs[j].status = "InProgress"}

\* C16: a read of a transform job's output comes after the wait for that job
\* has returned, the job completed; and no two transform jobs are in progress
\* at a time.
C16_ReadAfterWait ==
    /\ bpc \in {"read1", "read2", "read3"} =>
           /\ Len(jobs) \in waited
           /\ jobs[Len(jobs)].status = "Completed"
           /\ jobs[Len(jobs)].name = output_path
    /\ read_of # 0 => read_of \in waited /\ jobs[read_of].status = "Completed"
    /\ Cardinality(InProgress) <= 1

C16_Witness ==
    /\ bpc = "done"
    /\ read_of = 4
    /\ Cardinality(TransformJobs(jobs)) = 3
    /\ TransformJobs(jobs) \subseteq waited
    /\ data_train.rows # <<>>
    /\ data_val.rows # <<>>

----------------------------------------------------------------------------
(* The tuning notebook                                                     *)

\* A job name is the sequence of its characters.  The SDK names the first
\* job itself; the names here run over every sequence of up to MaxNameLen of
\* these characters.
NameChars == {"l", "r", "-"}
Names == UNION {[1..n -> NameChars] : n \in 1..MaxNameLen}

\* The kernel after the cells that prepare the data and the estimator.
TuningLoaded ==
    /\ tpc = "fit_log"
    /\ tuning_jobs = NoObjects
    /\ name_log = None
    /\ name_linear = None
    /\ status_log = "unread"
    /\ status_linear = "unread"
    /\ df_log = None
    /\ df_linear = None
    /\ df = None
    /\ texc = "none"

\* tuner_log.fit(...): the job is created under the name the SDK chose, and
\* fit returns with the job in progress.
FitLog(name) ==
    /\ tpc = "fit_log"
    /\ tuning_jobs' = Put(tuning_jobs, name, "InProgress")
    /\ name_log' = name
    /\ tpc' = "check_log"
    /\ UNCHANGED <<name_linear, status_log, status_linear, df_log, df_linear, df, texc>>
    /\ UNCHANGED <<fairVars, batchVars>>

\* The two cells that show a job's status.
CheckCell ==
    /\ tpc \in {"check_log", "check_linear"}
    /\ tpc' = IF tpc = "check_log" THEN "fit_linear" ELSE "analysis"
    /\ UNCHANGED <<tuning_jobs, name_log, name_linear, status_log, status_linear,
                   df_log, df_linear, df, texc>>
    /\ UNCHANGED <<fairVars, batchVars>>

\* Variant of LinearJobName: the name of the first job as it is.
LinearJobName_same(name) == name

\* job_name = tuner_log.latest_tuning_job.job_name + "linear"
LinearJobName(name) == name \o <<"l", "i", "n", "e", "a", "r">>

\* tuner_linear.fit(..., job_name=job_name): the service refuses a name
\* that a job already has.
FitLinear ==
    /\ tpc = "fit_linear"
    /\ LET job_name == LinearJobName(name_log)
       IN  IF job_name \in DOMAIN tuning_jobs
           THEN /\ texc' = "ClientError"
                /\ tpc' = "stopped"
                /\ UNCHANGED <<tuning_jobs, name_linear>>
           ELSE /\ tuning_jobs' = Put(tuning_jobs, job_name, "InProgress")
                /\ name_linear' = job_name
                /\ tpc' = "check_linear"
                /\ UNCHANGED texc
    /\ UNCHANGED <<name_log, status_log, status_linear, df_log, df_linear, df>>
    /\ UNCHANGED <<fairVars, batchVars>>

\* The analysis cell, first part: status_log is read.
DescribeLog ==
    /\ tpc = "analysis"
    /\ status_log' = tuning_jobs[name_log]
    /\ tpc' = "analysis_linear"
    /\ UNCHANGED <<tuning_jobs, name_log, name_linear, status_linear, df_log,
                   df_linear, df, texc>>
    /\ UNCHANGED <<fairVars, batchVars>>

\* HyperparameterTuningJobAnalytics(name).dataframe() with its scaling
\* column: the rows of the data frame, here one for the job.
Analytics(name, scaling) == <<[job |-> name, scaling |-> scaling]>>

\* Variant of Asserted: only the first job's status is asserted.
Asserted_first_only(first, second) == first = "Completed"

\* The two assertions of the analysis cell pass.
Asserted(first, second) == first = "Completed" /\ second = "Completed"

\* The analysis cell, second part: status_linear is read, both statuses are
\* asserted, and the data frames are built.
DescribeLinearAndAnalyse ==
    /\ tpc = "analysis_linear"
    /\ status_linear' = tuning_jobs[name_linear]
    /\ IF Asserted(status_log, tuning_jobs[name_linear])
       THEN /\ df_log' = Analytics(name_log, "log")
            /\ df_linear' = Analytics(name_linear, "linear")
            /\ df' = Analytics(name_log, "log") \o Analytics(name_linear, "linear")
            /\ tpc' = "plot"
            /\ UNCHANGED texc
       ELSE /\ texc' = "AssertionError"
            /\ tpc' = "stopped"
            /\ UNCHANGED <<df_log, df_linear, df>>
    /\ UNCHANGED <<tuning_jobs, name_log, name_linear, status_log>>
    /\ UNCHANGED <<fairVars, batchVars>>

\* The cell that plots df.
PlotCell ==
    /\ tpc = "plot"
    /\ tpc' = "done"
    /\ UNCHANGED <<tuning_jobs, name_log, name_linear, status_log, status_linear,
                   df_log, df_linear, df, texc>>
    /\ UNCHANGED <<fairVars, batchVars>>

\* The service: a tuning job in progress ends.
TuningJobEnds(name, status) ==
    /\ name \in DOMAIN tuning_jobs
    /\ tuning_jobs[name] = "InProgress"
    /\ tuning_jobs' = [tuning_jobs EXCEPT ![name] = status]
    /\ UNCHANGED <<tpc, name_log, name_linear, status_log, status_linear, df_log,
                   df_linear, df, texc>>
    /\ UNCHANGED <<fairVars, batchVars>>

EndStatuses == {"Completed", "Failed", "Stopped"}

InitTune == FairnessIdle /\ BatchIdle /\ TuningLoaded

\* The steps after the first fit: the cells in their order, and the service.
TuneSteps ==
    \/ CheckCell
    \/ FitLinear
    \/ DescribeLog
    \/ DescribeLinearAndAnalyse
    \/ PlotCell
    \/ \E name \in DOMAIN tuning_jobs, status \in EndStatuses :
           TuningJobEnds(name, status)

NextTune ==
    \/ \E name \in Names : FitLog(name)
    \/ TuneSteps

SpecTune == InitTune /\ [][NextTune]_vars

\* C15: the analysis cell builds its data frames only when both statuses it
\* read are "Completed"; when either is anything else the assertion fails and
\* df_log, df_linear and df are not built.
C15_AnalyticsOnlyWhenCompleted ==
    /\ (df_log # None \/ df_linear # None \/ df # None) =>
           /\ status_log = "Completed"
           /\ status_linear = "Completed"
           /\ tuning_jobs[name_log] = "Completed"
           /\ tuning_jobs[name_linear] = "Completed"
    /\ (status_linear # "unread" /\ (status_log # "Completed" \/ status_linear # "Completed"))
           => /\ texc = "AssertionError"
              /\ df_log = None
              /\ df_linear = None
              /\ df = None

C15_Witness ==
    /\ status_log = "Completed"
    /\ status_linear = "InProgress"
    /\ texc = "AssertionError"
    /\ df = None

\* C17: the two tuning jobs never have the same name: the second is started
\* under the name of the first with "linear" after it, which is another name,
\* and the service does not refuse it.
C17_DistinctJobNames ==
    /\ texc # "ClientError"
    /\ name_linear # None =>
           /\ name_linear # name_log
           /\ name_linear = name_log \o <<"l", "i", "n", "e", "a", "r">>
           /\ DOMAIN tuning_jobs = {name_log, name_linear}
           /\ Cardinality(DOMAIN tuning_jobs) = 2

C17_Witness ==
    /\ name_linear # None
    /\ Len(name_log) = MaxNameLen
    /\ name_log[1] = "l"
    /\ Len(name_linear) = MaxNameLen + 6

----------------------------------------------------------------------------
(* The jobs of the two notebooks, each notebook in its own kernel          *)

\* One run of each notebook: rows that alternate between the two samples, a
\* split with a training row, a validation row and batch rows, and one name
\* for the first tuning job.
SampleData ==
    LoadedFrame([r \in 1..MaxRecords |->
                    CHOOSE b \in Bodies : b[1] = r % 2])
SampleSplit ==
    [r \in 1..MaxRecords |->
        IF r = 1 THEN Fl(Rat(1, 2)) ELSE IF r = 2 THEN Threshold8 ELSE Threshold9]
SampleName == <<"l">>

InitJobs ==
    /\ FairnessIdle
    /\ BatchLoaded
    /\ data = SampleData
    /\ TuningLoaded

NextJobs ==
    \/ SplitCell(SampleSplit)
    \/ BatchSteps
    \/ FitLog(SampleName)
    \/ TuneSteps

SpecJobs == InitJobs /\ [][NextJobs]_vars

\* The steps at which the batch-transform notebook is inside a call that
\* waits for a job: estimator.fit, and wait() after transform in the same cell.
WaitingSteps == {"training", "wait1", "wait2", "wait3"}

\* While a training or transform job is in progress its notebook is inside
\* the call that waits for it: it is the latest job, and no later step runs.
TrainingAndTransformWaited ==
    \A j \in 1..Len(jobs) :
        jobs[j].status = "InProgress" => j = Len(jobs) /\ bpc \in WaitingSteps

\* While a tuning job is in progress no cell after the fit that started it
\* has run.
TuningWaited ==
    /\ (name_log # None /\ tuning_jobs[name_log] = "InProgress") => tpc = "check_log"
    /\ (name_linear # None /\ tuning_jobs[name_linear] = "InProgress")
           => tpc = "check_linear"

\* C11 as stated: every training, transform and tuning job a notebook starts
\* is waited on before the notebook's next step; no later cell runs while a
\* tuning job is in progress.
C11_EveryJobWaited == TrainingAndTransformWaited /\ TuningWaited

\* C11 as amended: every training and transform job is waited on before the
\* notebook's next step.  tuner.fit returns with its job in progress, and the
\* only cell that requires the tuning jobs to have ended is the analysis
\* cell: it goes on to the plot only with both jobs completed.
C11_TrainingAndTransformWaited ==
    /\ TrainingAndTransformWaited
    /\ tpc \in {"plot", "done"} =>
           \A name \in DOMAIN tuning_jobs : tuning_jobs[name] = "Completed"

C11_Witness ==
    /\ bpc = "wait3"
    /\ jobs[Len(jobs)].status = "InProgress"
    /\ tpc = "analysis"
    /\ tuning_jobs[name_log] = "InProgress"
    /\ tuning_jobs[name_linear] = "InProgress"

====
